---- MODULE Spec2Model ----
(***************************************************************************)
(* Identity bootstrap of the chat server: User::create, User::verify,      *)
(* Workspace::create / update_owner / fetch_all_chat_users running as      *)
(* concurrent request workers against one relational store, and the       *)
(* router that gates the /chat routes behind token verification.           *)
(*                                                                         *)
(* Every action is one SQL statement (one await on the pool) together with *)
(* the synchronous code that surrounds it, so the interleavings of the     *)
(* model are the interleavings of the statements of concurrent requests.   *)
(***************************************************************************)
EXTENDS Integers, Sequences, FiniteSets, TLC

VARIABLES users, workspaces, pc, req, ws, user, result, http, boot

storeVars == <<users, workspaces>>
procVars == <<pc, req, ws, user, result>>

(***************************************************************************)
(* Bounds and input domains.                                               *)
(***************************************************************************)
MaxUsers == 3
MaxWorkspaces == 2

Procs == {"p1", "p2"}
Emails == {"tchen@acme.org", "alice@acme.org", "bob@acme.org"}
WsNames == {"acme", "none"}
Fullnames == {"Tyr Chen"}
Passwords == {"hunter42", "Hunter42"}
Salts == {"s1", "s2"}

(***************************************************************************)
(* Values.  A String that holds a password hash is either a PHC string     *)
(* (algorithm, salt and digest encoded together), the empty string, or     *)
(* some other text.  Option<String> is `some` plus the string.             *)
(***************************************************************************)
EmptyString == [kind |-> "empty", salt |-> "", digest |-> <<>>]
GarbageString == [kind |-> "garbage", salt |-> "", digest |-> <<>>]
OptNone == [some |-> FALSE, val |-> EmptyString]
OptSome(s) == [some |-> TRUE, val |-> s]

\* Option<String>::unwrap_or_default: None becomes the empty string.
UnwrapOrDefault(o) == IF o.some THEN o.val ELSE EmptyString

NoWs == [id |-> 0, name |-> "", owner_id |-> 0]
NoUser == [id |-> 0, ws_id |-> 0, fullname |-> "", email |-> "", password_hash |-> OptNone]
NoReq == [op |-> "none"]
NoResult == [tag |-> "None"]

\* The User struct as the queries of find_by_email and create return it: the
\* password_hash column is not selected, so the field is None.
\* A User value that keeps the stored hash of its row.
UserOfWithHash(row) == row

UserOf(row) ==
    [id |-> row.id, ws_id |-> row.ws_id, fullname |-> row.fullname,
     email |-> row.email, password_hash |-> OptNone]

\* The ChatUser projection: id, fullname, email.
ChatUserOf(row) == [id |-> row.id, fullname |-> row.fullname, email |-> row.email]

OkUser(u) == [tag |-> "OkUser", user |-> u]
OkNone == [tag |-> "OkNone"]
OkWorkspace(w) == [tag |-> "OkWorkspace", ws |-> w]
OkChatUsers(s) == [tag |-> "OkChatUsers", users |-> s]
ErrEmailAlreadyExists(e) == [tag |-> "Err", err |-> "EmailAlreadyExists", email |-> e]
ErrSqlx(what) == [tag |-> "Err", err |-> "SqlxError", detail |-> what]
ErrPasswordHash == [tag |-> "Err", err |-> "PasswordHashError"]

Range(s) == {s[i] : i \in DOMAIN s}

(***************************************************************************)
(* CredentialHasher.                                                       *)
(***************************************************************************)
\* The Argon2 digest of a password under a salt: an ideal one-way function,
\* so two digests agree exactly when salt and password agree.
Argon2Digest(password, salt) == <<"argon2id", salt, password>>

\* hash_password: a fresh salt, the digest, and both encoded in one string.
hash_password(password, salt) ==
    [kind |-> "phc", salt |-> salt, digest |-> Argon2Digest(password, salt)]

\* PasswordHash::new: parsing succeeds only on a PHC string.
PasswordHashNewOk(s) == s.kind = "phc"

\* A verification that compares the digest without the salt of the stored hash.
verify_password_unsalted(password, s) ==
    IF ~PasswordHashNewOk(s)
    THEN ErrPasswordHash
    ELSE [tag |-> "OkBool", val |-> (Argon2Digest(password, "s1") = s.digest)]

\* verify_password: parse the stored string (an error when that fails), then
\* recompute the digest with the embedded salt and compare.
verify_password(password, s) ==
    IF ~PasswordHashNewOk(s)
    THEN ErrPasswordHash
    ELSE [tag |-> "OkBool", val |-> (Argon2Digest(password, s.salt) = s.digest)]

(***************************************************************************)
(* IdentityStore: the queries, as functions of the tables.                 *)
(***************************************************************************)
\* SELECT ... FROM users WHERE email = $1 (fetch_optional): the rows that match.
UsersByEmail(email, us) == {r \in Range(us) : r.email = email}

\* A lookup that never finds the row.
find_by_email_blind(email, us) == NoUser

\* User::find_by_email: the row with the email, if any.
find_by_email(email, us) ==
    IF UsersByEmail(email, us) = {}
    THEN NoUser
    ELSE UserOf(CHOOSE r \in UsersByEmail(email, us) :
                    \A q \in UsersByEmail(email, us) : r.id <= q.id)

WorkspacesByName(name, wss) == {w \in Range(wss) : w.name = name}

\* A lookup that never finds the workspace.
find_by_name_blind(name, wss) == NoWs

find_by_name(name, wss) ==
    IF WorkspacesByName(name, wss) = {}
    THEN NoWs
    ELSE CHOOSE w \in WorkspacesByName(name, wss) :
             \A q \in WorkspacesByName(name, wss) : w.id <= q.id

\* A users table without the unique constraint on email.
EmailUniqueDropped(email, us) == TRUE

\* The store's unique constraint on users.email.
EmailUnique(email, us) == UsersByEmail(email, us) = {}

\* A workspaces table without the unique constraint on name.
WsNameUniqueDropped(name, wss) == TRUE

\* The store's unique constraint on workspaces.name.
WsNameUnique(name, wss) == WorkspacesByName(name, wss) = {}

\* INSERT INTO workspaces (name, owner_id): the row the store adds.
NewWorkspaceRow(name, owner, wss) ==
    [id |-> Len(wss) + 1, name |-> name, owner_id |-> owner]

\* An insert that binds the new user to no workspace.
NewUserRowUnbound(ws_id, email, fullname, hash, us) ==
    [id |-> Len(us) + 1, ws_id |-> 0, fullname |-> fullname, email |-> email,
     password_hash |-> OptSome(hash)]

\* INSERT INTO users (ws_id, email, fullname, password_hash): the row added.
NewUserRow(ws_id, email, fullname, hash, us) ==
    [id |-> Len(us) + 1, ws_id |-> ws_id, fullname |-> fullname, email |-> email,
     password_hash |-> OptSome(hash)]

\* A subquery that only asks whether the user exists, in any workspace.
UserInWorkspaceAny(user_id, ws_id, us) ==
    \E r \in Range(us) : r.id = user_id

\* (SELECT ws_id FROM users WHERE id = $1) = $2
UserInWorkspace(user_id, ws_id, us) ==
    \E r \in Range(us) : r.id = user_id /\ r.ws_id = ws_id

\* UPDATE workspaces SET owner_id = $1 WHERE id = $2 and (SELECT ...) = $2:
\* the rows the statement changes.
UpdateOwnerMatches(ws_id, user_id, wss, us) ==
    {i \in DOMAIN wss : wss[i].id = ws_id /\ UserInWorkspace(user_id, ws_id, us)}

\* An update that changes no row.
UpdateOwnerRowsNone(ws_id, user_id, wss, us) == wss

UpdateOwnerRows(ws_id, user_id, wss, us) ==
    [i \in DOMAIN wss |->
        IF i \in UpdateOwnerMatches(ws_id, user_id, wss, us)
        THEN [wss[i] EXCEPT !.owner_id = user_id]
        ELSE wss[i]]

(***************************************************************************)
(* The initial state: an empty store and idle workers.                     *)
(***************************************************************************)
StoreInit ==
    /\ users = <<>>
    /\ workspaces = <<>>

ProcInit ==
    /\ pc = [p \in Procs |-> "idle"]
    /\ req = [p \in Procs |-> NoReq]
    /\ ws = [p \in Procs |-> NoWs]
    /\ user = [p \in Procs |-> NoUser]
    /\ result = [p \in Procs |-> NoResult]

\* A worker takes a call when it has none in flight: it never had one, its
\* last call returned, or its last call was dropped.
Free(p) == pc[p] \in {"idle", "done", "stopped"}

Finish(p, r) ==
    /\ pc' = [pc EXCEPT ![p] = "done"]
    /\ result' = [result EXCEPT ![p] = r]
    /\ ws' = [ws EXCEPT ![p] = NoWs]
    /\ user' = [user EXCEPT ![p] = NoUser]

(***************************************************************************)
(* User::create, statement by statement.                                   *)
(***************************************************************************)
\* A call that resolves the workspace before it looks the email up.
CreateWorkspaceFirst(p, input) ==
    /\ Free(p)
    /\ WsNameUnique(input.workspace, workspaces) => Len(workspaces) < MaxWorkspaces
    /\ req' = [req EXCEPT ![p] =
                 [op |-> "create", fullname |-> input.fullname, email |-> input.email,
                  workspace |-> input.workspace, password |-> input.password]]
    /\ workspaces' = IF WsNameUnique(input.workspace, workspaces)
                     THEN Append(workspaces, NewWorkspaceRow(input.workspace, 0, workspaces))
                     ELSE workspaces
    /\ IF find_by_email(input.email, users) # NoUser
       THEN Finish(p, ErrEmailAlreadyExists(input.email))
       ELSE /\ pc' = [pc EXCEPT ![p] = "find_by_name"]
            /\ result' = [result EXCEPT ![p] = NoResult]
            /\ ws' = [ws EXCEPT ![p] = NoWs]
            /\ user' = [user EXCEPT ![p] = NoUser]
    /\ UNCHANGED users
    /\ UNCHANGED <<http, boot>>

\* The call and its find_by_email: a row with the email ends the call with
\* EmailAlreadyExists(input.email).
CreateFindByEmail(p, input) ==
    /\ Free(p)
    /\ req' = [req EXCEPT ![p] =
                 [op |-> "create", fullname |-> input.fullname, email |-> input.email,
                  workspace |-> input.workspace, password |-> input.password]]
    /\ IF find_by_email(input.email, users) # NoUser
       THEN Finish(p, ErrEmailAlreadyExists(input.email))
       ELSE /\ pc' = [pc EXCEPT ![p] = "find_by_name"]
            /\ result' = [result EXCEPT ![p] = NoResult]
            /\ ws' = [ws EXCEPT ![p] = NoWs]
            /\ user' = [user EXCEPT ![p] = NoUser]
    /\ UNCHANGED storeVars
    /\ UNCHANGED <<http, boot>>

\* Workspace::find_by_name: Some(ws) is kept, None leads to Workspace::create.
CreateFindByName(p) ==
    /\ pc[p] = "find_by_name"
    /\ LET found == find_by_name(req[p].workspace, workspaces) IN
       IF found # NoWs
       THEN /\ ws' = [ws EXCEPT ![p] = found]
            /\ pc' = [pc EXCEPT ![p] = "insert_user"]
       ELSE /\ ws' = ws
            /\ pc' = [pc EXCEPT ![p] = "workspace_create"]
    /\ UNCHANGED <<users, workspaces, req, user, result>>
    /\ UNCHANGED <<http, boot>>

\* Where a call stands before hash_password and the INSERT INTO users: with
\* the workspace it found (the Some arm of the match), or with the one it has
\* just created (the None arm).
InsertUserAt == {"insert_user", "insert_user_new_ws"}

\* A call that answers a rejected Workspace::create by looking the name up
\* again and going on.
CreateWorkspaceCreateRetry(p) ==
    /\ pc[p] = "workspace_create"
    /\ WsNameUnique(req[p].workspace, workspaces) => Len(workspaces) < MaxWorkspaces
    /\ IF WsNameUnique(req[p].workspace, workspaces)
       THEN LET row == NewWorkspaceRow(req[p].workspace, 0, workspaces) IN
            /\ workspaces' = Append(workspaces, row)
            /\ ws' = [ws EXCEPT ![p] = row]
            /\ pc' = [pc EXCEPT ![p] = "insert_user_new_ws"]
       ELSE /\ ws' = [ws EXCEPT ![p] = find_by_name(req[p].workspace, workspaces)]
            /\ pc' = [pc EXCEPT ![p] = "insert_user"]
            /\ UNCHANGED workspaces
    /\ UNCHANGED <<user, result>>
    /\ UNCHANGED <<users, req>>
    /\ UNCHANGED <<http, boot>>

\* Workspace::create(&input.workspace, 0, pool)?: the row is committed and the
\* call goes on to insert its user, or the ? returns the store's error.
CreateWorkspaceCreate(p) ==
    /\ pc[p] = "workspace_create"
    /\ WsNameUnique(req[p].workspace, workspaces) => Len(workspaces) < MaxWorkspaces
    /\ IF WsNameUnique(req[p].workspace, workspaces)
       THEN LET row == NewWorkspaceRow(req[p].workspace, 0, workspaces) IN
            /\ workspaces' = Append(workspaces, row)
            /\ ws' = [ws EXCEPT ![p] = row]
            /\ pc' = [pc EXCEPT ![p] = "insert_user_new_ws"]
            /\ UNCHANGED <<user, result>>
       ELSE /\ Finish(p, ErrSqlx("unique_violation: workspaces.name"))
            /\ UNCHANGED workspaces
    /\ UNCHANGED <<users, req>>
    /\ UNCHANGED <<http, boot>>

\* An insert after which the call returns without promoting anyone.
CreateInsertUserOnly(p, salt) ==
    /\ pc[p] \in InsertUserAt
    /\ EmailUnique(req[p].email, users) => Len(users) < MaxUsers
    /\ LET password_hash == hash_password(req[p].password, salt)
           row == NewUserRow(ws[p].id, req[p].email, req[p].fullname,
                             password_hash, users)
       IN IF EmailUnique(req[p].email, users)
          THEN /\ users' = Append(users, row)
               /\ Finish(p, OkUser(UserOf(row)))
          ELSE /\ Finish(p, ErrSqlx("unique_violation: users.email"))
               /\ UNCHANGED users
    /\ UNCHANGED <<workspaces, req>>
    /\ UNCHANGED <<http, boot>>

\* hash_password, then the INSERT INTO users; with ws.owner_id != 0 the call
\* returns the user here.
CreateInsertUser(p, salt) ==
    /\ pc[p] \in InsertUserAt
    /\ EmailUnique(req[p].email, users) => Len(users) < MaxUsers
    /\ LET password_hash == hash_password(req[p].password, salt)
           row == NewUserRow(ws[p].id, req[p].email, req[p].fullname,
                             password_hash, users)
       IN IF EmailUnique(req[p].email, users)
          THEN /\ users' = Append(users, row)
               /\ IF ws[p].owner_id = 0
                  THEN /\ pc' = [pc EXCEPT ![p] = "update_owner"]
                       /\ user' = [user EXCEPT ![p] = UserOf(row)]
                       /\ UNCHANGED <<ws, result>>
                  ELSE Finish(p, OkUser(UserOf(row)))
          ELSE /\ Finish(p, ErrSqlx("unique_violation: users.email"))
               /\ UNCHANGED users
    /\ UNCHANGED <<workspaces, req>>
    /\ UNCHANGED <<http, boot>>

\* ws.update_owner(user.id as u64, pool).await? and Ok(user).
CreateUpdateOwner(p) ==
    /\ pc[p] = "update_owner"
    /\ IF UpdateOwnerMatches(ws[p].id, user[p].id, workspaces, users) # {}
       THEN /\ workspaces' = UpdateOwnerRows(ws[p].id, user[p].id, workspaces, users)
            /\ Finish(p, OkUser(user[p]))
       ELSE /\ workspaces' = workspaces
            /\ Finish(p, ErrSqlx("RowNotFound"))
    /\ UNCHANGED <<users, req>>
    /\ UNCHANGED <<http, boot>>

\* The statements of User::create after its first, each of which awaits the
\* store.
CreateAwaits == {"find_by_name", "workspace_create", "update_owner"} \cup InsertUserAt

IoError(at) == [tag |-> "Err", err |-> "SqlxError", detail |-> "io", at |-> at]
\* What is left of a dropped call: where it stopped and the workspace it held.
Stopped(at, held) == [tag |-> "Stopped", at |-> at, ws |-> held]

\* The statement in flight fails in the store (connection lost, statement
\* refused): it changes nothing and its error is returned through ?.
CreateStoreError(p) ==
    /\ pc[p] \in CreateAwaits
    /\ Finish(p, IoError(pc[p]))
    /\ UNCHANGED <<users, workspaces, req>>
    /\ UNCHANGED <<http, boot>>

\* The first statement of the call, find_by_email, fails in the store: the
\* call returns the error and has changed nothing.
CreateFindByEmailStoreError(p, input) ==
    /\ Free(p)
    /\ req' = [req EXCEPT ![p] =
                 [op |-> "create", fullname |-> input.fullname, email |-> input.email,
                  workspace |-> input.workspace, password |-> input.password]]
    /\ Finish(p, IoError("find_by_email"))
    /\ UNCHANGED storeVars
    /\ UNCHANGED <<http, boot>>

\* The call is dropped at an await (timeout, cancelled request, crash): it
\* takes no further step and returns nothing.
CreateAbandon(p) ==
    /\ pc[p] \in CreateAwaits
    /\ pc' = [pc EXCEPT ![p] = "stopped"]
    /\ result' = [result EXCEPT ![p] = Stopped(pc[p], ws[p])]
    /\ ws' = [ws EXCEPT ![p] = NoWs]
    /\ user' = [user EXCEPT ![p] = NoUser]
    /\ UNCHANGED <<users, workspaces, req>>
    /\ UNCHANGED <<http, boot>>

(***************************************************************************)
(* The other model operations, each one statement.                         *)
(***************************************************************************)
\* Workspace::create(name, user_id, pool), called directly: the row is
\* inserted with owner_id = user_id, whatever user_id is.
WorkspaceCreate(p, name, user_id) ==
    /\ Free(p)
    /\ WsNameUnique(name, workspaces) => Len(workspaces) < MaxWorkspaces
    /\ req' = [req EXCEPT ![p] =
                 [op |-> "workspace_create", name |-> name, user_id |-> user_id]]
    /\ IF WsNameUnique(name, workspaces)
       THEN /\ workspaces' = Append(workspaces, NewWorkspaceRow(name, user_id, workspaces))
            /\ Finish(p, OkWorkspace(NewWorkspaceRow(name, user_id, workspaces)))
       ELSE /\ workspaces' = workspaces
            /\ Finish(p, ErrSqlx("unique_violation: workspaces.name"))
    /\ UNCHANGED users
    /\ UNCHANGED <<http, boot>>

\* Workspace::update_owner(&self, user_id, pool), called directly on a
\* workspace value read from the store.
UpdateOwner(p, self, user_id) ==
    /\ Free(p)
    /\ req' = [req EXCEPT ![p] =
                 [op |-> "update_owner", ws_id |-> self.id, user_id |-> user_id]]
    /\ LET rows == UpdateOwnerRows(self.id, user_id, workspaces, users)
           hit == UpdateOwnerMatches(self.id, user_id, workspaces, users)
       IN /\ workspaces' = rows
          /\ IF hit # {}
             THEN Finish(p, OkWorkspace(rows[CHOOSE i \in hit : TRUE]))
             ELSE Finish(p, ErrSqlx("RowNotFound"))
    /\ UNCHANGED users
    /\ UNCHANGED <<http, boot>>

\* Every order in which a query without ORDER BY may return a set of rows.
RowOrders(S) ==
    {s \in [1..Cardinality(S) -> S] : \A i, j \in DOMAIN s : s[i] = s[j] => i = j}

\* A listing without the WHERE clause: every user of the store.
FetchResultsAll(id, us) ==
    {[i \in DOMAIN s |-> ChatUserOf(s[i])] : s \in RowOrders(Range(us))}

\* Workspace::fetch_all_chat_users(id, pool): SELECT id, fullname, email FROM
\* users WHERE ws_id = $1, in the order the store returns the rows.
FetchResults(id, us) ==
    {[i \in DOMAIN s |-> ChatUserOf(s[i])] :
        s \in RowOrders({r \in Range(us) : r.ws_id = id})}

fetch_all_chat_users(p, id) ==
    /\ Free(p)
    /\ req' = [req EXCEPT ![p] = [op |-> "fetch_all_chat_users", id |-> id]]
    /\ \E s \in FetchResults(id, users) : Finish(p, OkChatUsers(s))
    /\ UNCHANGED storeVars
    /\ UNCHANGED <<http, boot>>

\* A verify that reports a missing row instead of returning None (fetch_one
\* where the code has fetch_optional).
verify_fetch_one(input, us) ==
    LET rows == UsersByEmail(input.email, us) IN
    IF rows = {}
    THEN ErrSqlx("RowNotFound")
    ELSE LET row == CHOOSE r \in rows : \A q \in rows : r.id <= q.id
             is_valid == verify_password(input.password, UnwrapOrDefault(row.password_hash))
         IN IF is_valid.tag = "Err"
            THEN is_valid
            ELSE IF is_valid.val THEN OkUser(UserOf(row)) ELSE OkNone

\* User::verify as a function of the input and the users table.
verify(input, us) ==
    LET rows == UsersByEmail(input.email, us) IN
    IF rows = {}
    THEN OkNone
    ELSE LET row == CHOOSE r \in rows : \A q \in rows : r.id <= q.id
             password_hash == row.password_hash
             is_valid == verify_password(input.password, UnwrapOrDefault(password_hash))
         IN IF is_valid.tag = "Err"
            THEN is_valid
            ELSE IF is_valid.val THEN OkUser(UserOf(row)) ELSE OkNone

Verify(p, input) ==
    /\ Free(p)
    /\ req' = [req EXCEPT ![p] =
                 [op |-> "verify", email |-> input.email, password |-> input.password]]
    /\ Finish(p, verify(input, users))
    /\ UNCHANGED storeVars
    /\ UNCHANGED <<http, boot>>

\* list_chat_users_handler with the User the token middleware attached to
\* the request: the listing of user.ws_id.
list_chat_users_handler(p, caller) ==
    /\ Free(p)
    /\ req' = [req EXCEPT ![p] = [op |-> "list_chat_users_handler", user |-> caller]]
    /\ \E s \in FetchResults(caller.ws_id, users) : Finish(p, OkChatUsers(s))
    /\ UNCHANGED storeVars
    /\ UNCHANGED <<http, boot>>

\* User::find_by_email(email, pool), called directly.
FindByEmail(p, email) ==
    /\ Free(p)
    /\ req' = [req EXCEPT ![p] = [op |-> "find_by_email", email |-> email]]
    /\ LET found == find_by_email(email, users) IN
       Finish(p, IF found = NoUser THEN OkNone ELSE OkUser(found))
    /\ UNCHANGED storeVars
    /\ UNCHANGED <<http, boot>>

(***************************************************************************)
(* The router of get_router and a request's way through it.                *)
(***************************************************************************)
Conns == {"c1", "c2"}

\* The methods requests are sent with: for every route at least one that it
\* binds and one that it does not.
RequestMethods == {"GET", "POST", "DELETE"}
StartMethods == {"GET", "POST"}

\* An api router whose layer call comes before the routes it was meant for.
ApiRouterLayerFirst ==
    <<[op |-> "layer", arg |-> "verify_token", methods |-> {}],
      [op |-> "route", arg |-> "/chat", methods |-> {"GET", "POST"}],
      [op |-> "route", arg |-> "/chat/{{:id}}", methods |-> {"PATCH", "DELETE", "POST"}],
      [op |-> "route", arg |-> "/chat/{{:id}}/messages", methods |-> {"GET"}],
      [op |-> "route", arg |-> "/signin", methods |-> {"POST"}],
      [op |-> "route", arg |-> "/signup", methods |-> {"POST"}]>>

\* The api router, in the order get_router builds it, each route with the
\* methods it binds a handler to.
ApiRouter ==
    <<[op |-> "route", arg |-> "/chat", methods |-> {"GET", "POST"}],
      [op |-> "route", arg |-> "/chat/{{:id}}", methods |-> {"PATCH", "DELETE", "POST"}],
      [op |-> "route", arg |-> "/chat/{{:id}}/messages", methods |-> {"GET"}],
      [op |-> "layer", arg |-> "verify_token", methods |-> {}],
      [op |-> "route", arg |-> "/signin", methods |-> {"POST"}],
      [op |-> "route", arg |-> "/signup", methods |-> {"POST"}]>>

\* Router::layer wraps the routes added before it, and no route added after.
LayersOf(router, i) ==
    {router[j].arg : j \in {k \in DOMAIN router : k > i /\ router[k].op = "layer"}}

\* The app: "/" with index_handler on GET, and the api router nested under
\* "/api".
AppRoutes ==
    {[path |-> <<"/">>, layers |-> {}, methods |-> {"GET"}]}
        \cup {[path |-> <<"/api", ApiRouter[i].arg>>, layers |-> LayersOf(ApiRouter, i),
               methods |-> ApiRouter[i].methods] :
                 i \in {k \in DOMAIN ApiRouter : ApiRouter[k].op = "route"}}

RouteOf(path) == CHOOSE r \in AppRoutes : r.path = path

\* What a request may carry as its bearer token.
NoIdentity == [user_id |-> 0, ws_id |-> 0]
Identities == {[user_id |-> 1, ws_id |-> 1]}
Tokens ==
    {[kind |-> k, claims |-> NoIdentity] :
        k \in {"missing", "malformed", "bad_signature", "expired"}}
        \cup {[kind |-> "valid", claims |-> i] : i \in Identities}

\* TokenCodec.verify: the claims of a well-formed, well-signed, unexpired token.
TokenVerifyOk(token) == token.kind = "valid"

RequestPaths ==
    {r.path : r \in AppRoutes} \cup {<<"/api", "/nothing">>}

IdleConn ==
    [stage |-> "idle", method |-> "GET", path |-> <<>>, token |-> [kind |-> "missing", claims |-> NoIdentity],
     identity |-> NoIdentity, handled |-> FALSE, status |-> 0]

HttpInit == http = [c \in Conns |-> IdleConn]

\* A request arrives and is routed by its path: no route answers 404, a
\* layered route goes to its middleware, any other straight to the route's
\* method router.
Receive(c, method, path, token) ==
    /\ http[c].stage \in {"idle", "done"}
    /\ http' = [http EXCEPT ![c] =
          [IdleConn EXCEPT
              !.method = method,
              !.path = path,
              !.token = token,
              !.stage = IF \A r \in AppRoutes : r.path # path THEN "done"
                        ELSE IF "verify_token" \in RouteOf(path).layers THEN "verify_token"
                        ELSE "handler",
              !.status = IF \A r \in AppRoutes : r.path # path THEN 404 ELSE 0]]
    /\ UNCHANGED <<storeVars, procVars, boot>>

\* The verify_token middleware: on success the identity is attached and the
\* request goes on, on any token error the response is 401 and it ends.
VerifyToken(c) ==
    /\ http[c].stage = "verify_token"
    /\ http' = [http EXCEPT ![c] =
          IF TokenVerifyOk(http[c].token)
          THEN [http[c] EXCEPT !.identity = http[c].token.claims, !.stage = "handler"]
          ELSE [http[c] EXCEPT !.status = 401, !.stage = "done"]]
    /\ UNCHANGED <<storeVars, procVars, boot>>

\* The route's method router: the handler bound to the request's method runs
\* and answers; for a method the route does not bind the answer is 405 and no
\* handler runs.
Handler(c) ==
    /\ http[c].stage = "handler"
    /\ http' = [http EXCEPT ![c] =
          IF http[c].method \in RouteOf(http[c].path).methods
          THEN [http[c] EXCEPT !.handled = TRUE, !.status = 200, !.stage = "done"]
          ELSE [http[c] EXCEPT !.status = 405, !.stage = "done"]]
    /\ UNCHANGED <<storeVars, procVars, boot>>

(***************************************************************************)
(* Startup: AppState::try_new and get_router.                              *)
(***************************************************************************)
\* What the configuration may hold: key texts that load or do not, and a
\* database url that can be connected to or not.
Configs ==
    [pk : {"valid_pem", "malformed_pem"}, sk : {"valid_pem", "malformed_pem"},
     db_url : {"reachable", "unreachable"}]

GoodConfig == [pk |-> "valid_pem", sk |-> "valid_pem", db_url |-> "reachable"]

\* DecodingKey::load / EncodingKey::load and PgPool::connect, by their outcome.
KeyLoadOk(pem) == pem = "valid_pem"
ConnectOk(db_url) == db_url = "reachable"

NoState == [built |-> FALSE, dk |-> FALSE, ek |-> FALSE, pool |-> FALSE]

\* A try_new that builds the state without waiting for the connection
\* (a lazily connecting pool).
try_new_lazy(config) ==
    IF ~KeyLoadOk(config.pk)
    THEN [ok |-> FALSE, error |-> "load pk failed", state |-> NoState]
    ELSE IF ~KeyLoadOk(config.sk)
    THEN [ok |-> FALSE, error |-> "load sk failed", state |-> NoState]
    ELSE [ok |-> TRUE, error |-> "",
          state |-> [built |-> TRUE, dk |-> TRUE, ek |-> TRUE,
                     pool |-> ConnectOk(config.db_url)]]

\* AppState::try_new: the two keys and the pool, each with ?, then the state.
try_new(config) ==
    IF ~KeyLoadOk(config.pk)
    THEN [ok |-> FALSE, error |-> "load pk failed", state |-> NoState]
    ELSE IF ~KeyLoadOk(config.sk)
    THEN [ok |-> FALSE, error |-> "load sk failed", state |-> NoState]
    ELSE IF ~ConnectOk(config.db_url)
    THEN [ok |-> FALSE, error |-> "connect to db failed", state |-> NoState]
    ELSE [ok |-> TRUE, error |-> "",
          state |-> [built |-> TRUE, dk |-> TRUE, ek |-> TRUE, pool |-> TRUE]]

\* get_router: try_new(config).await?, then the router over that state.
get_router(config) ==
    LET r == try_new(config) IN
    [stage |-> IF r.ok THEN "serving" ELSE "failed", config |-> config,
     state |-> r.state, router |-> r.ok, error |-> r.error]

\* The process before get_router has run, and a process that has started.
NotStarted(config) ==
    [stage |-> "starting", config |-> config, state |-> NoState, router |-> FALSE,
     error |-> ""]

BootReady == boot = get_router(GoodConfig)

\* The process calls get_router(config).
GetRouter ==
    /\ boot.stage = "starting"
    /\ boot' = get_router(boot.config)
    /\ UNCHANGED <<storeVars, procVars, http>>

\* The process serves a request only through the router it was given.
Serve(c, method, path, token) ==
    /\ boot.router
    /\ Receive(c, method, path, token)

vars == <<users, workspaces, pc, req, ws, user, result, http, boot>>

(***************************************************************************)
(* Spec: concurrent provisioning.  Both workers run User::create, and      *)
(* direct Workspace::create and Workspace::update_owner calls, interleaved *)
(* statement by statement.                                                 *)
(***************************************************************************)
DefaultPassword == "hunter42"
DefaultSalt == "s1"

RaceEmails == {"tchen@acme.org", "alice@acme.org"}

ProvisionInputs ==
    [fullname : Fullnames, email : RaceEmails, workspace : WsNames,
     password : {DefaultPassword}]

\* The owners given to a direct Workspace::create: none, as the tests do, and
\* the id of the first user to sign up.
DirectOwners == {0, 1}

Init == StoreInit /\ ProcInit /\ HttpInit /\ BootReady

Next ==
    \E p \in Procs :
        \/ \E input \in ProvisionInputs : CreateFindByEmail(p, input)
        \/ CreateFindByName(p)
        \/ CreateWorkspaceCreate(p)
        \/ CreateInsertUser(p, DefaultSalt)
        \/ CreateUpdateOwner(p)
        \/ \E name \in WsNames, user_id \in DirectOwners : WorkspaceCreate(p, name, user_id)
        \/ \E self \in Range(workspaces), user_id \in 0..MaxUsers :
               UpdateOwner(p, self, user_id)

Spec == Init /\ [][Next]_vars

(***************************************************************************)
(* Claims about concurrent provisioning, checked under Spec.               *)
(***************************************************************************)
\* C1: in every reachable state at most one User row holds any given email,
\* however the statements of concurrent User::create calls interleave.
C1_EmailUniqueness ==
    \A i, j \in DOMAIN users : users[i].email = users[j].email => i = j

\* Two calls raced on one email: the loser passed the lookup and was rejected
\* by the insert, and the email has its row.
C1_Witness ==
    \E p \in Procs :
        /\ pc[p] = "done"
        /\ req[p].op = "create"
        /\ result[p] = ErrSqlx("unique_violation: users.email")
        /\ UsersByEmail(req[p].email, users) # {}

\* C2: in every step a workspace's owner_id stays the same or changes from 0
\* to a user id; once it is non-zero no later promotion changes it.
C2_OwnerPromotedAtMostOnce ==
    [][\A i \in DOMAIN workspaces :
          \/ workspaces'[i].owner_id = workspaces[i].owner_id
          \/ workspaces[i].owner_id = 0]_vars

\* C3: a User::create called with an email that already has a User row ends
\* with EmailAlreadyExists carrying exactly that email.
C3_DuplicateEmailRejected ==
    [][\A p \in Procs, input \in ProvisionInputs :
          (CreateFindByEmail(p, input) /\ UsersByEmail(input.email, users) # {})
              => (pc'[p] = "done" /\ result'[p] = ErrEmailAlreadyExists(input.email))]_vars

\* A call has been rejected with EmailAlreadyExists for the email it carried,
\* and the row with that email is in the table.
C3_Witness ==
    \E p \in Procs :
        /\ pc[p] = "done"
        /\ req[p].op = "create"
        /\ result[p] = ErrEmailAlreadyExists(req[p].email)
        /\ UsersByEmail(req[p].email, users) # {}

\* C9: in every reachable state at most one Workspace row holds any given
\* name, also when two User::create calls both saw the name as absent.
C9_WorkspaceNameUniqueness ==
    \A i, j \in DOMAIN workspaces : workspaces[i].name = workspaces[j].name => i = j

\* A User::create saw its workspace name as absent and had its
\* Workspace::create rejected, because the name had been taken meanwhile.
C9_Witness ==
    \E p \in Procs :
        /\ pc[p] = "done"
        /\ req[p].op = "create"
        /\ result[p] = ErrSqlx("unique_violation: workspaces.name")
        /\ WorkspacesByName(req[p].workspace, workspaces) # {}

\* The workspace rows with the id.
WorkspacesById(id) == {w \in Range(workspaces) : w.id = id}

\* C13: Workspace::update_owner(ws, user_id) sets the owner of the workspace
\* with id ws.id, and of no other, when a user with id user_id and ws_id =
\* ws.id exists; otherwise it ends with "no row" and every workspace row
\* stays as it was.
C13_UpdateOwnerOnlyForMember ==
    [][\A p \in Procs, self \in Range(workspaces), user_id \in 0..MaxUsers :
          UpdateOwner(p, self, user_id) =>
              IF \E r \in Range(users) : r.id = user_id /\ r.ws_id = self.id
              THEN /\ \A i \in DOMAIN workspaces :
                         workspaces'[i] =
                             IF workspaces[i].id = self.id
                             THEN [workspaces[i] EXCEPT !.owner_id = user_id]
                             ELSE workspaces[i]
                   /\ result'[p].tag = "OkWorkspace"
              ELSE /\ workspaces' = workspaces
                   /\ result'[p] = ErrSqlx("RowNotFound")]_vars

\* An update_owner for a user of another workspace ended with "no row", and
\* the workspace it named still has the owner it had.
C13_Witness ==
    \E p \in Procs :
        /\ pc[p] = "done"
        /\ req[p].op = "update_owner"
        /\ result[p] = ErrSqlx("RowNotFound")
        /\ \E r \in Range(users) : r.id = req[p].user_id /\ r.ws_id # req[p].ws_id
        /\ \E w \in WorkspacesById(req[p].ws_id) : w.owner_id # req[p].user_id

\* C14: when the Workspace::create of a User::create is rejected because the
\* name has been taken since the call looked it up, the call ends there with
\* an error: it takes no further statement, and the step adds no user and
\* changes no workspace.
C14_NameConflictSurfaced ==
    [][\A p \in Procs :
          (CreateWorkspaceCreate(p) /\ WorkspacesByName(req[p].workspace, workspaces) # {})
              => /\ pc'[p] = "done"
                 /\ result'[p] = ErrSqlx("unique_violation: workspaces.name")
                 /\ users' = users
                 /\ workspaces' = workspaces]_vars

\* A User::create lost the race on its workspace name while its email has no
\* row: the call ended with the error and no user was inserted for it.
C14_Witness ==
    \E p \in Procs :
        /\ pc[p] = "done"
        /\ req[p].op = "create"
        /\ result[p] = ErrSqlx("unique_violation: workspaces.name")
        /\ UsersByEmail(req[p].email, users) = {}

\* C15: in every reachable state the ws_id of every User row is the id of
\* exactly one Workspace row, and every insert of a User row binds it to the
\* one workspace that carries the name given to the inserting User::create.
C15_UserBoundToNamedWorkspace ==
    /\ [](\A r \in Range(users) : Cardinality(WorkspacesById(r.ws_id)) = 1)
    /\ [][\A p \in Procs :
             (CreateInsertUser(p, DefaultSalt) /\ users' # users) =>
                 LET row == users'[Len(users')] IN
                 /\ Cardinality(WorkspacesById(row.ws_id)) = 1
                 /\ \A w \in WorkspacesById(row.ws_id) : w.name = req[p].workspace]_vars

\* Users have been inserted into two different workspaces.
C15_Witness ==
    \E r, q \in Range(users) :
        /\ r.ws_id # q.ws_id
        /\ WorkspacesById(r.ws_id) # {}
        /\ WorkspacesById(q.ws_id) # {}

\* C18: a User::create that ends with EmailAlreadyExists leaves the users
\* table and the workspaces table, owners included, exactly as they were; a
\* workspace named in the request and absent stays absent.
C18_DuplicateEmailChangesNothing ==
    [][\A p \in Procs, input \in ProvisionInputs :
          (CreateFindByEmail(p, input) /\ result'[p] = ErrEmailAlreadyExists(input.email))
              => /\ users' = users
                 /\ workspaces' = workspaces
                 /\ (WorkspacesByName(input.workspace, workspaces) = {}
                        => WorkspacesByName(input.workspace, workspaces') = {})]_vars

\* A User::create was rejected with EmailAlreadyExists and the workspace it
\* named, which no one else has created, does not exist.
C18_Witness ==
    \E p \in Procs :
        /\ pc[p] = "done"
        /\ req[p].op = "create"
        /\ result[p] = ErrEmailAlreadyExists(req[p].email)
        /\ WorkspacesByName(req[p].workspace, workspaces) = {}
        /\ users # <<>>

(***************************************************************************)
(* ProvisionSpec: nothing but User::create calls, on two workers, their    *)
(* statements interleaved in every way.                                    *)
(***************************************************************************)
ProvisionNext ==
    \E p \in Procs :
        \/ \E input \in ProvisionInputs : CreateFindByEmail(p, input)
        \/ CreateFindByName(p)
        \/ CreateWorkspaceCreate(p)
        \/ CreateInsertUser(p, DefaultSalt)
        \/ CreateUpdateOwner(p)

ProvisionSpec == Init /\ [][ProvisionNext]_vars

\* The User::create that inserted the row has not returned yet: its
\* promotion is still to come.
PromotionPending(r) ==
    \E p \in Procs : pc[p] = "update_owner" /\ user[p].id = r.id

\* C19: every user whose User::create has returned is in a workspace whose
\* owner_id is not 0 and is the id of one of that workspace's users, and no
\* step takes an owner_id back to 0.
C19_ProvisionedUserHasOwner ==
    /\ [](\A r \in Range(users) :
             ~PromotionPending(r) =>
                 /\ WorkspacesById(r.ws_id) # {}
                 /\ \A w \in WorkspacesById(r.ws_id) :
                        /\ w.owner_id # 0
                        /\ \E o \in Range(users) : o.id = w.owner_id /\ o.ws_id = w.id)
    /\ [][\A i \in DOMAIN workspaces :
             workspaces[i].owner_id # 0 => workspaces'[i].owner_id # 0]_vars

\* Two calls joined one unowned workspace at the same time and both have
\* returned their user: the workspace is owned by one of its users.
C19_Witness ==
    \E p, q \in Procs :
        /\ p # q
        /\ pc[p] = "done" /\ req[p].op = "create" /\ result[p].tag = "OkUser"
        /\ pc[q] = "done" /\ req[q].op = "create" /\ result[q].tag = "OkUser"
        /\ result[p].user.ws_id = result[q].user.ws_id
        /\ \E w \in WorkspacesById(result[p].user.ws_id) :
              w.owner_id \in {result[p].user.id, result[q].user.id}

(***************************************************************************)
(* SeqSpec: one worker, so every call runs to its end without another      *)
(* call's statements in between: User::create, a direct Workspace::create  *)
(* (as the tests do before signing users up) and the membership listing.   *)
(***************************************************************************)
Solo == CHOOSE p \in Procs : TRUE

SeqInputs ==
    [fullname : Fullnames, email : Emails, workspace : WsNames,
     password : {DefaultPassword}]

SeqNext ==
    \/ \E input \in SeqInputs : CreateFindByEmail(Solo, input)
    \/ CreateFindByName(Solo)
    \/ CreateWorkspaceCreate(Solo)
    \/ CreateInsertUser(Solo, DefaultSalt)
    \/ CreateUpdateOwner(Solo)
    \/ \E name \in WsNames, user_id \in 0..MaxUsers : WorkspaceCreate(Solo, name, user_id)
    \/ \E id \in 1..MaxWorkspaces : fetch_all_chat_users(Solo, id)

SeqSpec == Init /\ [][SeqNext]_vars

\* The users of a workspace, and the first of them to have joined.
Members(ws_id) == {r \in Range(users) : r.ws_id = ws_id}
FirstJoiner(ws_id) ==
    CHOOSE r \in Members(ws_id) : \A q \in Members(ws_id) : r.id <= q.id

\* C4: when an uninterrupted User::create returns a user, the workspace it
\* named exists and the user's ws_id is its id; if the call found the
\* workspace absent or with owner_id 0 the owner is now the new user, and if
\* it found it owned the owner is the one it had.
C4_FirstJoinerBecomesOwner ==
    [][(pc[Solo] \in InsertUserAt \cup {"update_owner"} /\ pc'[Solo] = "done"
            /\ result'[Solo].tag = "OkUser") =>
          LET u == result'[Solo].user
              named == WorkspacesByName(req[Solo].workspace, workspaces')
          IN /\ named # {}
             /\ \A w \in named :
                   /\ u.ws_id = w.id
                   /\ w.owner_id # 0
                   /\ w.owner_id = IF ws[Solo].owner_id = 0 THEN u.id
                                   ELSE ws[Solo].owner_id]_vars

\* A second user has joined a workspace that the first joiner owns, and the
\* owner is still the first joiner.
C4_Witness ==
    /\ pc[Solo] = "done"
    /\ req[Solo].op = "create"
    /\ result[Solo].tag = "OkUser"
    /\ \E i \in DOMAIN workspaces :
          /\ workspaces[i].id = result[Solo].user.ws_id
          /\ workspaces[i].owner_id # 0
          /\ workspaces[i].owner_id # result[Solo].user.id
          /\ workspaces[i].owner_id = FirstJoiner(workspaces[i].id).id

\* C5: fetch_all_chat_users returns the users of the workspace in creation
\* order, strictly ascending by id.
C5_ListingAscendingById ==
    (pc[Solo] = "done" /\ req[Solo].op = "fetch_all_chat_users") =>
        LET s == result[Solo].users IN
        \A i, j \in DOMAIN s : i < j => s[i].id < s[j].id

(***************************************************************************)
(* AuthSpec: signup and signin.  Two workers run User::create with either  *)
(* password and either salt, and User::verify with every email and         *)
(* password, interleaved.                                                  *)
(***************************************************************************)
AuthInputs ==
    [fullname : Fullnames, email : RaceEmails, workspace : {"acme"},
     password : Passwords]

SigninInputs == [email : RaceEmails, password : Passwords]

AuthNext ==
    \E p \in Procs :
        \/ \E input \in AuthInputs : CreateFindByEmail(p, input)
        \/ CreateFindByName(p)
        \/ CreateWorkspaceCreate(p)
        \/ \E salt \in Salts : CreateInsertUser(p, salt)
        \/ CreateUpdateOwner(p)
        \/ \E input \in SigninInputs : Verify(p, input)

AuthSpec == Init /\ [][AuthNext]_vars

\* Worker p holds the outcome of a successful User::create for the email.
Created(p, email) ==
    /\ pc[p] = "done"
    /\ req[p].op = "create"
    /\ result[p].tag = "OkUser"
    /\ req[p].email = email

\* C6: User::verify returns a user exactly when a row with the email exists
\* and the password is the one given to the User::create that made the row:
\* without a row it returns no user; after a successful create(email, pw) it
\* returns that user for pw and no user for any other password.
C6_VerifyAfterCreate ==
    [][\A q \in Procs, input \in SigninInputs :
          Verify(q, input) =>
              /\ UsersByEmail(input.email, users) = {} => result'[q] = OkNone
              /\ \A p \in Procs :
                    Created(p, input.email) =>
                        result'[q] = IF input.password = req[p].password
                                     THEN OkUser(result[p].user)
                                     ELSE OkNone]_vars

\* One worker signed a user up and the other has verified the same email
\* with the same password and got that user.
C6_Witness ==
    \E p, q \in Procs :
        /\ p # q
        /\ pc[q] = "done"
        /\ req[q].op = "verify"
        /\ Created(p, req[q].email)
        /\ req[q].password = req[p].password
        /\ result[q] = OkUser(result[p].user)

\* The call of worker q was a User::verify for an email without a row.
VerifiedMissingEmail(q) ==
    /\ pc[q] = "done"
    /\ req[q].op = "verify"
    /\ UsersByEmail(req[q].email, users) = {}

\* The call of worker q was a User::verify for an email that has a row, with
\* a password other than the one the stored hash was made from.
VerifiedWrongPassword(q) ==
    /\ pc[q] = "done"
    /\ req[q].op = "verify"
    /\ \E r \in UsersByEmail(req[q].email, users) :
          r.password_hash.val.digest
              # Argon2Digest(req[q].password, r.password_hash.val.salt)

\* C8: a User::verify for an email without a row and a User::verify for an
\* existing email with a wrong password return the same value.
C8_AuthFailureUniform ==
    \A p, q \in Procs :
        (VerifiedMissingEmail(p) /\ VerifiedWrongPassword(q)) => result[p] = result[q]

\* Both cases are on the table at once: one worker asked for an email without
\* a row, the other gave a wrong password for an email that has one.
C8_Witness ==
    \E p, q \in Procs :
        /\ p # q
        /\ VerifiedMissingEmail(p)
        /\ VerifiedWrongPassword(q)
        /\ result[q] = OkNone

(***************************************************************************)
(* VerifySpec: User::verify and verify_password as functions of the stored *)
(* row.  The users table holds one row whose password_hash is drawn from   *)
(* every shape the column and the Option<String> field admit.              *)
(***************************************************************************)
StoredHashes ==
    {OptNone, OptSome(EmptyString), OptSome(GarbageString)}
        \cup {OptSome(hash_password(pw, salt)) : pw \in Passwords, salt \in Salts}

VerifyInit ==
    /\ ProcInit
    /\ HttpInit
    /\ BootReady
    /\ workspaces = <<[id |-> 1, name |-> "acme", owner_id |-> 1]>>
    /\ \E email \in Emails, fullname \in Fullnames, h \in StoredHashes :
          users = <<[id |-> 1, ws_id |-> 1, fullname |-> fullname, email |-> email,
                     password_hash |-> h]>>

VerifyNext ==
    \E p \in Procs, input \in [email : Emails, password : Passwords] : Verify(p, input)

VerifySpec == VerifyInit /\ [][VerifyNext]_vars

\* C7: when the stored hash of the looked-up user is absent, empty or
\* malformed, verify_password yields false and User::verify returns no user,
\* as for a wrong password.
C7_BadHashFailsClosed ==
    \A q \in Procs :
        (pc[q] = "done" /\ req[q].op = "verify") =>
            \A r \in UsersByEmail(req[q].email, users) :
                ~PasswordHashNewOk(UnwrapOrDefault(r.password_hash)) =>
                    /\ verify_password(req[q].password, UnwrapOrDefault(r.password_hash))
                           = [tag |-> "OkBool", val |-> FALSE]
                    /\ result[q] = OkNone

(***************************************************************************)
(* GateSpec: requests on two connections make their way through the        *)
(* router, with every path and every kind of bearer token.                 *)
(***************************************************************************)
GateNext ==
    \E c \in Conns :
        \/ \E method \in RequestMethods, path \in RequestPaths, token \in Tokens :
               Receive(c, method, path, token)
        \/ VerifyToken(c)
        \/ Handler(c)

GateSpec == Init /\ [][GateNext]_vars

\* The protected routes and the open ones, as the contract names them.
ChatPaths ==
    {<<"/api", "/chat">>, <<"/api", "/chat/{{:id}}">>, <<"/api", "/chat/{{:id}}/messages">>}
OpenPaths == {<<"/api", "/signin">>, <<"/api", "/signup">>}

\* The request on connection c carries a method its route binds.
MethodBound(c) == http[c].method \in RouteOf(http[c].path).methods

\* C10: on a /chat route the method router, and so the handler, is reached
\* only by a request whose token was verified (its identity is attached); a
\* request whose token fails ends with 401 and no handler, whatever its
\* method; /signin and /signup never pass through verification and their
\* handler answers a POST whatever token the request carries.
C10_RequestGating ==
    \A c \in Conns :
        /\ (http[c].path \in ChatPaths /\ http[c].stage = "handler") =>
               (TokenVerifyOk(http[c].token) /\ http[c].identity = http[c].token.claims)
        /\ (http[c].path \in ChatPaths /\ http[c].handled) =>
               (TokenVerifyOk(http[c].token) /\ http[c].identity = http[c].token.claims)
        /\ (http[c].path \in ChatPaths /\ http[c].stage = "done"
                /\ ~TokenVerifyOk(http[c].token)) =>
               (http[c].status = 401 /\ ~http[c].handled)
        /\ (http[c].path \in OpenPaths /\ http[c].stage # "idle") =>
               /\ http[c].stage \in {"handler", "done"}
               /\ http[c].status # 401
               /\ (http[c].stage = "done" /\ MethodBound(c))
                      => (http[c].handled /\ http[c].status = 200)

\* One request to a /chat route, with a method the route binds, was turned
\* away with 401 before its handler, while a POST /signin without a token was
\* handled.
C10_Witness ==
    \E c, d \in Conns :
        /\ http[c].path \in ChatPaths
        /\ MethodBound(c)
        /\ http[c].stage = "done"
        /\ http[c].status = 401
        /\ ~http[c].handled
        /\ http[d].path = <<"/api", "/signin">>
        /\ http[d].method = "POST"
        /\ http[d].token.kind = "missing"
        /\ http[d].handled

(***************************************************************************)
(* StartSpec: the process starts with any configuration, and serves        *)
(* requests once get_router has given it a router.                         *)
(***************************************************************************)
StartInit ==
    /\ StoreInit
    /\ ProcInit
    /\ HttpInit
    /\ \E config \in Configs : boot = NotStarted(config)

StartNext ==
    \/ GetRouter
    \/ \E c \in Conns :
          \/ \E method \in StartMethods, path \in RequestPaths, token \in Tokens :
                 Serve(c, method, path, token)
          \/ boot.router /\ VerifyToken(c)
          \/ boot.router /\ Handler(c)

StartSpec == StartInit /\ [][StartNext]_vars

\* C11: a router exists, and requests are served, only if the public key,
\* the private key and the store connection all succeeded; if any of them
\* fails get_router ends with an error, without a router and without a
\* state, built in part or in full.
C11_FailFastStartup ==
    LET allOk == /\ KeyLoadOk(boot.config.pk)
                 /\ KeyLoadOk(boot.config.sk)
                 /\ ConnectOk(boot.config.db_url)
    IN /\ boot.router => (allOk /\ boot.state.built)
       /\ boot.state.built => (boot.state.dk /\ boot.state.ek /\ boot.state.pool /\ allOk)
       /\ (boot.stage # "starting" /\ ~allOk) =>
              /\ boot.stage = "failed"
              /\ boot.error # ""
              /\ ~boot.router
              /\ boot.state = NoState
       /\ (\E c \in Conns : http[c].stage # "idle") => (boot.router /\ allOk)

\* A start with valid keys and an unreachable store has ended in an error.
C11_Witness ==
    /\ boot.stage = "failed"
    /\ KeyLoadOk(boot.config.pk)
    /\ KeyLoadOk(boot.config.sk)
    /\ ~ConnectOk(boot.config.db_url)
    /\ boot.error = "connect to db failed"

(***************************************************************************)
(* FaultSpec: User::create calls on two workers, their statements          *)
(* interleaved in every way, with a store that may fail any statement and  *)
(* calls that may be dropped at any await.                                 *)
(***************************************************************************)
FaultNext ==
    \E p \in Procs :
        \/ \E input \in ProvisionInputs : CreateFindByEmail(p, input)
        \/ \E input \in ProvisionInputs : CreateFindByEmailStoreError(p, input)
        \/ CreateFindByName(p)
        \/ CreateWorkspaceCreate(p)
        \/ CreateInsertUser(p, DefaultSalt)
        \/ CreateUpdateOwner(p)
        \/ CreateStoreError(p)
        \/ CreateAbandon(p)

FaultSpec == Init /\ [][FaultNext]_vars

\* C12: once User::create has inserted the user, a promotion attempt that
\* updates no row or does not apply otherwise still lets the call return the
\* created user.
C12_PromotionFailureSwallowed ==
    [][\A p \in Procs :
          (pc[p] = "update_owner" /\ pc'[p] = "done") => result'[p] = OkUser(user[p])]_vars

\* Worker p's User::create stops in this step before its user is inserted:
\* it is dropped, or its INSERT INTO users fails (a store fault, or the email
\* taken meanwhile).
StopsBeforeInsert(p) ==
    /\ pc[p] \in InsertUserAt
    /\ \/ pc'[p] = "stopped"
       \/ pc'[p] = "done" /\ result'[p].tag = "Err"

\* The User::create of worker p has stopped after it had its workspace and
\* before it inserted the user.
StoppedBeforeInsert(p) ==
    /\ req[p].op = "create"
    /\ \/ pc[p] = "stopped" /\ result[p].at \in InsertUserAt
       \/ pc[p] = "done" /\ result[p] \in {IoError(at) : at \in InsertUserAt}
       \/ pc[p] = "done" /\ result[p] = ErrSqlx("unique_violation: users.email")

\* Worker q's User::create returns its user in this step.
ReturnsUser(q) ==
    /\ pc[q] \in InsertUserAt \cup {"update_owner"}
    /\ pc'[q] = "done"
    /\ result'[q].tag = "OkUser"

\* C16 as stated: when a User::create stops after creating the workspace and
\* before inserting the user, the store holds that workspace with owner_id 0
\* and no users, and a User::create that names the workspace afterwards and
\* returns its user has joined it and is its owner.
C16_AbandonedLeavesEmptyWorkspace ==
    /\ [][\A p \in Procs :
             (pc[p] = "insert_user_new_ws" /\ StopsBeforeInsert(p)) =>
                 \E w \in WorkspacesByName(req[p].workspace, workspaces') :
                     /\ w.id = ws[p].id
                     /\ w.owner_id = 0
                     /\ \A r \in Range(users') : r.ws_id # w.id]_vars
    /\ [][\A p \in Procs, q \in Procs :
             (p # q /\ pc[p] = "stopped" /\ result[p].at = "insert_user_new_ws"
                  /\ ReturnsUser(q) /\ req[q].workspace = req[p].workspace) =>
                 \A w \in WorkspacesByName(req[p].workspace, workspaces') :
                     /\ result'[q].user.ws_id = w.id
                     /\ w.owner_id = result'[q].user.id]_vars

\* C16, amended: when a User::create stops after creating the workspace and
\* before inserting the user, the store holds that workspace, with owner_id 0
\* if no user has joined it by then; from then on the workspace stays, a
\* User::create that looks the name up finds it and creates none, and one
\* that returns its user has joined it, as its owner if it found it with
\* owner_id 0.
C16_AbandonedProvisioningHarmless ==
    /\ [][\A p \in Procs :
             (pc[p] = "insert_user_new_ws" /\ StopsBeforeInsert(p)) =>
                 \E w \in WorkspacesByName(req[p].workspace, workspaces') :
                     /\ w.id = ws[p].id
                     /\ Members(w.id) = {} => w.owner_id = 0]_vars
    /\ [](\A p \in Procs :
             StoppedBeforeInsert(p) =>
                 Cardinality(WorkspacesByName(req[p].workspace, workspaces)) = 1)
    /\ [][\A p \in Procs, q \in Procs :
             (p # q /\ StoppedBeforeInsert(p) /\ req[q].op = "create"
                  /\ req[q].workspace = req[p].workspace) =>
                 /\ CreateFindByName(q) =>
                        /\ pc'[q] = "insert_user"
                        /\ ws'[q] \in WorkspacesByName(req[p].workspace, workspaces)
                 /\ ReturnsUser(q) =>
                        \A w \in WorkspacesByName(req[p].workspace, workspaces') :
                            /\ result'[q].user.ws_id = w.id
                            /\ w.owner_id # 0
                            /\ ws[q].owner_id = 0 => w.owner_id = result'[q].user.id]_vars

\* A call was dropped holding the unowned workspace it had just created, and
\* a call that named the workspace afterwards returned its user, the only
\* member and the owner.
C16_Witness ==
    \E p, q \in Procs :
        /\ p # q
        /\ pc[p] = "stopped" /\ req[p].op = "create"
        /\ result[p].at = "insert_user_new_ws" /\ result[p].ws.owner_id = 0
        /\ pc[q] = "done" /\ req[q].op = "create" /\ result[q].tag = "OkUser"
        /\ req[q].workspace = req[p].workspace
        /\ \E w \in WorkspacesByName(req[p].workspace, workspaces) :
              /\ w.id = result[p].ws.id
              /\ result[q].user.ws_id = w.id
              /\ w.owner_id = result[q].user.id
              /\ Cardinality(Members(w.id)) = 1

(***************************************************************************)
(* ReturnSpec: the three operations that return a User value, on two       *)
(* workers: User::create, User::verify and a direct User::find_by_email.   *)
(***************************************************************************)
ReturnInputs ==
    [fullname : Fullnames, email : RaceEmails, workspace : {"acme"},
     password : {DefaultPassword}]

ReturnNext ==
    \E p \in Procs :
        \/ \E input \in ReturnInputs : CreateFindByEmail(p, input)
        \/ CreateFindByName(p)
        \/ CreateWorkspaceCreate(p)
        \/ CreateInsertUser(p, DefaultSalt)
        \/ CreateUpdateOwner(p)
        \/ \E input \in SigninInputs : Verify(p, input)
        \/ \E email \in Emails : FindByEmail(p, email)

ReturnSpec == Init /\ [][ReturnNext]_vars

\* C17: every User value returned by User::create, User::find_by_email and
\* User::verify has no password hash, whatever the store holds, while the
\* row it was read from keeps its hash.
C17_NoPasswordHashReturned ==
    \A p \in Procs :
        (pc[p] = "done" /\ req[p].op \in {"create", "verify", "find_by_email"}
            /\ result[p].tag = "OkUser")
        => /\ result[p].user.password_hash = OptNone
           /\ \A r \in UsersByEmail(result[p].user.email, users) :
                 r.password_hash # OptNone

\* A User::verify with the right password and a User::find_by_email have
\* both returned the user whose row holds a hash.
C17_Witness ==
    \E p, q \in Procs :
        /\ pc[p] = "done" /\ req[p].op = "verify" /\ result[p].tag = "OkUser"
        /\ pc[q] = "done" /\ req[q].op = "find_by_email" /\ result[q].tag = "OkUser"
        /\ result[p].user = result[q].user
        /\ \E r \in UsersByEmail(req[p].email, users) :
              /\ r.password_hash = OptSome(hash_password(req[p].password, DefaultSalt))
              /\ result[p].user.id = r.id

(***************************************************************************)
(* ListSpec: one worker signs users up into two workspaces and lists       *)
(* members, by workspace id and through the handler as any signed-up user. *)
(***************************************************************************)
\* The users a verified token can stand for: those that have signed up.
AuthenticatedUsers == {UserOf(r) : r \in Range(users)}

ListNext ==
    \/ \E input \in SeqInputs : CreateFindByEmail(Solo, input)
    \/ CreateFindByName(Solo)
    \/ CreateWorkspaceCreate(Solo)
    \/ CreateInsertUser(Solo, DefaultSalt)
    \/ CreateUpdateOwner(Solo)
    \/ \E id \in 0..MaxWorkspaces : fetch_all_chat_users(Solo, id)
    \/ \E caller \in AuthenticatedUsers : list_chat_users_handler(Solo, caller)

ListSpec == Init /\ [][ListNext]_vars

\* The listing s holds each user of workspace id once and nothing else.
ExactlyMembers(s, id) ==
    /\ \A i \in DOMAIN s :
          \E r \in Range(users) :
              r.ws_id = id /\ s[i] = [id |-> r.id, fullname |-> r.fullname, email |-> r.email]
    /\ \A r \in Range(users) : r.ws_id = id => \E i \in DOMAIN s : s[i].id = r.id
    /\ \A i, j \in DOMAIN s : s[i].id = s[j].id => i = j

\* C20: Workspace::fetch_all_chat_users(id) returns each user with ws_id = id
\* once and no other user, and list_chat_users_handler returns that listing
\* for the ws_id of the authenticated user, so that a caller is shown no
\* member of another workspace.
C20_ListingTenantIsolation ==
    /\ (pc[Solo] = "done" /\ req[Solo].op = "fetch_all_chat_users")
           => ExactlyMembers(result[Solo].users, req[Solo].id)
    /\ (pc[Solo] = "done" /\ req[Solo].op = "list_chat_users_handler")
           => /\ ExactlyMembers(result[Solo].users, req[Solo].user.ws_id)
              /\ \A i \in DOMAIN result[Solo].users :
                    \A r \in Range(users) :
                        r.id = result[Solo].users[i].id => r.ws_id = req[Solo].user.ws_id

\* A user listed their workspace through the handler while another workspace
\* has a member: the answer holds the caller and not that member.
C20_Witness ==
    /\ pc[Solo] = "done"
    /\ req[Solo].op = "list_chat_users_handler"
    /\ \E i \in DOMAIN result[Solo].users : result[Solo].users[i].id = req[Solo].user.id
    /\ \E r \in Range(users) :
          /\ r.ws_id # req[Solo].user.ws_id
          /\ \A i \in DOMAIN result[Solo].users : result[Solo].users[i].id # r.id
====
